---- MODULE Spec2Model ----
(***************************************************************************)
(* Model of apps/sample/trimesh_inertia/urdf_from_file.cpp: main() reads   *)
(* its arguments in order (target mass, joint files, mesh files), then     *)
(* prints one URDF link block per processed mesh.                          *)
(*                                                                         *)
(* Strings are sequences of one-character strings, so that atof, strlen,   *)
(* the suffix strcmp, getline and strtok are computed on the characters.   *)
(* Real numbers are integers where the code only adds, subtracts or        *)
(* multiplies them, and fractions [n, d] where it divides: d = 0 is the    *)
(* result of a division by zero (IEEE inf or NaN).  Rounding of float and  *)
(* double is not modelled.                                                 *)
(***************************************************************************)
EXTENDS Integers, Sequences, FiniteSets, TLC

VARIABLES argv, pc, i, li, mass, volume, VolPerLink, ITvector, COMvector,
          joints, jointWrites, out, exitCode

vars == <<argv, pc, i, li, mass, volume, VolPerLink, ITvector, COMvector,
          joints, jointWrites, out, exitCode>>

(* Bound of the model: the number of arguments after argv[0]. *)
MaxArgs == 3

(* char buffer[32] *)
BufSize == 32
(* joint.setZero(6) *)
JointDim == 6
(* double mass = 1.0 *)
DefaultMass == 1
(* return -1 *)
ExitFailure == 0 - 1
(* exit status of abort(), raised by a failed assertion *)
ExitAbort == 134

----------------------------------------------------------------------------
(* Characters and C string functions *)

Digits == {"0", "1", "2", "3", "4", "5", "6", "7", "8", "9"}

DigitVal(c) ==
  CASE c = "0" -> 0 [] c = "1" -> 1 [] c = "2" -> 2 [] c = "3" -> 3
    [] c = "4" -> 4 [] c = "5" -> 5 [] c = "6" -> 6 [] c = "7" -> 7
    [] c = "8" -> 8 [] c = "9" -> 9

RECURSIVE AtofDigits(_, _, _)
AtofDigits(s, p, acc) ==
  IF p > Len(s) \/ s[p] \notin Digits THEN acc
  ELSE AtofDigits(s, p + 1, acc * 10 + DigitVal(s[p]))

(* atof: an optional sign and the longest run of digits; a string that    *)
(* starts with no number is 0.  The strings of this model carry no digit  *)
(* after a decimal point and no exponent, so the value is an integer.     *)
Atof(s) ==
  IF Len(s) > 0 /\ s[1] = "-" THEN 0 - AtofDigits(s, 2, 0)
  ELSE AtofDigits(s, 1, 0)

(* len > 3 && strcmp(argv[i]+len-4, suffix) == 0 *)
HasSuffix(s, suffix) ==
  Len(s) > 3 /\ SubSeq(s, Len(s) - 3, Len(s)) = suffix

RECURSIVE StrtokFrom(_, _, _, _)
StrtokFrom(s, p, cur, toks) ==
  IF p > Len(s) THEN (IF cur = <<>> THEN toks ELSE Append(toks, cur))
  ELSE IF s[p] = " "
       THEN StrtokFrom(s, p + 1, <<>>, IF cur = <<>> THEN toks ELSE Append(toks, cur))
       ELSE StrtokFrom(s, p + 1, Append(cur, s[p]), toks)

(* the tokens std::strtok(buffer, " ") returns, call after call *)
Strtok(s) == StrtokFrom(s, 1, <<>>, <<>>)

----------------------------------------------------------------------------
(* Arithmetic *)

Abs(x) == IF x < 0 THEN 0 - x ELSE x

Rat(n, d) == [n |-> n, d |-> d]

RatEq(a, b) == a.d # 0 /\ b.d # 0 /\ a.n * b.d = b.n * a.d

RatAdd(a, b) == Rat(a.n * b.d + b.n * a.d, a.d * b.d)

Zero3 == <<0, 0, 0>>

PAdd(p, q) == <<p[1] + q[1], p[2] + q[2], p[3] + q[3]>>

PSub(p, q) == <<p[1] - q[1], p[2] - q[2], p[3] - q[3]>>

(* Matrix33f * float, the float being the fraction f *)
MatScale(m, f) == [r \in 1..3 |-> [c \in 1..3 |-> Rat(m[r][c] * f.n, f.d)]]

----------------------------------------------------------------------------
(* The arguments and the files of the runs that are checked *)

ProgName == <<"u">>
Arg2 == <<"2">>
Arg1Txt == <<"1", ".", "t", "x", "t">>
JTxt == <<"j", ".", "t", "x", "t">>
KTxt == <<"k", ".", "t", "x", "t">>
WTxt == <<"w", ".", "t", "x", "t">>
LTxt == <<"l", ".", "t", "x", "t">>
MTxt == <<"m", ".", "t", "x", "t">>
ADae == <<"a", ".", "d", "a", "e">>
XDae == <<"x", ".", "d", "a", "e">>
BObj == <<"b", ".", "o", "b", "j">>
ZObj == <<"z", ".", "o", "b", "j">>
XObj == <<"x", ".", "o", "b", "j">>

Tokens == {Arg2, Arg1Txt, JTxt, KTxt, WTxt, LTxt, MTxt, ADae, XDae, BObj, ZObj, XObj}

DotTxt == <<".", "t", "x", "t">>
DotDae == <<".", "d", "a", "e">>

Line100 == <<"1", " ", "0", " ", "0", " ", "0", " ", "0", " ", "0">>
Line010 == <<"0", " ", "1", " ", "0", " ", "0", " ", "0", " ", "0">>
LineShort == <<"0", " ", " ", "-", "3", " ", "2">>
LineBlank == <<>>
LineSeven == Line100 \o <<" ", "7">>
LineLong == Line100 \o <<" ">> \o Line010 \o <<" ">> \o Line100

FileExists(path) == path \in {JTxt, KTxt, WTxt, LTxt}

(* the lines of a joint file, split at '\n' *)
FileLines(path) ==
  CASE path = JTxt -> <<Line100, Line010>>
    [] path = KTxt -> <<Line100, LineBlank, LineShort>>
    [] path = WTxt -> <<Line010, LineSeven>>
    [] path = LTxt -> <<Line010, LineLong, Line100>>
    [] OTHER -> <<>>

Diag2 == <<<<2, 0, 0>>, <<0, 2, 0>>, <<0, 0, 2>>>>
Sym3 == <<<<3, 1, 0>>, <<1, 3, 0>>, <<0, 0, 4>>>>
Mat0 == <<<<0, 0, 0>>, <<0, 0, 0>>, <<0, 0, 0>>>>

(* what the importers and vcg::tri::Inertia give for a mesh file: whether *)
(* Open returns 0, the signed volume, the center of mass, the tensor      *)
MeshFile(path) ==
  CASE path = ADae -> [ok |-> TRUE, Mass |-> 2, CenterOfMass |-> <<1, 0, 0>>, InertiaTensor |-> Diag2]
    [] path = BObj -> [ok |-> TRUE, Mass |-> 0 - 1, CenterOfMass |-> <<0, 1, 1>>, InertiaTensor |-> Sym3]
    [] path = ZObj -> [ok |-> TRUE, Mass |-> 0, CenterOfMass |-> Zero3, InertiaTensor |-> Mat0]
    [] OTHER -> [ok |-> FALSE, Mass |-> 0, CenterOfMass |-> Zero3, InertiaTensor |-> Mat0]

(* ImporterDAE<MyMesh>::Open(linkMesh, argv[i], info) != 0 *)
OpenDAEFails(path) == ~MeshFile(path).ok

(* Importer<MyMesh>::Open(linkMesh, argv[i]) != 0 *)
OpenFails(path) == ~MeshFile(path).ok

----------------------------------------------------------------------------
(* Reading a joint file: the getline loop and, inside it, the strtok loop *)

RECURSIVE TokenLoop(_, _, _, _)
(* while (value) { joint[index++] = atof(value); value = strtok(nullptr, " "); } *)
(* A store at index >= 6 is outside the 6 floats of the record: the record *)
(* keeps its fields, the index is kept in written.                         *)
TokenLoop(toks, index, joint, written) ==
  IF index >= Len(toks) THEN [joint |-> joint, written |-> written]
  ELSE TokenLoop(toks, index + 1,
                 IF index < JointDim
                 THEN [joint EXCEPT ![index + 1] = Atof(toks[index + 1])]
                 ELSE joint,
                 written \cup {index})

(* the body of the getline loop for one line held in buffer *)
ParseLine(buffer) == TokenLoop(Strtok(buffer), 0, [k \in 1..JointDim |-> 0], {})

(* file.getline(buffer, 32, '\n') is true: a line is left and it has at   *)
(* most 31 characters; a longer line sets failbit and ends the loop       *)
GetlineOk(lines, p) == p <= Len(lines) /\ Len(lines[p]) <= BufSize - 1

RECURSIVE GetlineLoop(_, _, _)
GetlineLoop(lines, p, acc) ==
  IF ~GetlineOk(lines, p) THEN acc
  ELSE LET r == ParseLine(lines[p])
       IN GetlineLoop(lines, p + 1,
            [joints  |-> Append(acc.joints, r.joint),
             written |-> acc.written \cup r.written,
             printed |-> Append(acc.printed, <<"CharBuffer", lines[p]>>)])

(* std::ifstream file(argv[i]): a file that cannot be opened gives a      *)
(* stream on which the first getline is false                             *)
StreamLines(path) == IF FileExists(path) THEN FileLines(path) ELSE <<>>

(* ClearJoints without the clear *)
ClearJoints_Keep(js) == js

(* joints.clear() *)
ClearJoints(js) == <<>>

(* the joint file branch: clear, then push one record per line read *)
ReadJointFile(js, path) ==
  GetlineLoop(StreamLines(path), 1,
              [joints |-> ClearJoints(js), written |-> {}, printed |-> <<>>])

(* the lines read before the first one that stores at index >= 6 *)
RECURSIVE LinesBeforeOverflow(_, _)
LinesBeforeOverflow(lines, p) ==
  IF ~GetlineOk(lines, p) THEN p - 1
  ELSE IF Len(Strtok(lines[p])) > JointDim THEN p
  ELSE LinesBeforeOverflow(lines, p + 1)

Overflows(path) ==
  \E idx \in ReadJointFile(<<>>, path).written : idx >= JointDim

----------------------------------------------------------------------------
(* Classification of an argument, in the order of the code *)

IsMassArg(t) == Atof(t) > 0

IsJointArg(t) == ~IsMassArg(t) /\ HasSuffix(t, DotTxt)

IsMeshArg(t) == ~IsMassArg(t) /\ ~HasSuffix(t, DotTxt)

ImportFails(t) == IF HasSuffix(t, DotDae) THEN OpenDAEFails(t) ELSE OpenFails(t)

----------------------------------------------------------------------------
(* The state: argv[k] of the code is Argv(k) *)

argc == Len(argv)

Argv(k) == argv[k + 1]

ArgLists == UNION {[1..n -> Tokens] : n \in 0..MaxArgs}

Init ==
  /\ argv \in {<<ProgName>> \o a : a \in ArgLists}
  /\ pc = "start"
  /\ i = 1
  /\ li = 0
  /\ mass = DefaultMass
  /\ volume = 0
  /\ VolPerLink = <<>>
  /\ ITvector = <<>>
  /\ COMvector = <<>>
  /\ joints = <<>>
  /\ jointWrites = {}
  /\ out = <<>>
  /\ exitCode = 0

(* if (argc <= 1) { printf(...); return -1; } *)
NoArguments ==
  /\ pc = "start"
  /\ argc <= 1
  /\ out' = Append(out, <<"NoMeshFile">>)
  /\ exitCode' = ExitFailure
  /\ pc' = "done"
  /\ UNCHANGED <<argv, i, li, mass, volume, VolPerLink, ITvector, COMvector, joints, jointWrites>>

EnterArgLoop ==
  /\ pc = "start"
  /\ argc > 1
  /\ pc' = "args"
  /\ UNCHANGED <<argv, i, li, mass, volume, VolPerLink, ITvector, COMvector, joints, jointWrites, out, exitCode>>

(* tmp > 0: the argument is the target mass *)
MassArg ==
  /\ pc = "args"
  /\ i < argc
  /\ IsMassArg(Argv(i))
  /\ mass' = Atof(Argv(i))
  /\ out' = Append(out, <<"OverallMass", mass'>>)
  /\ i' = i + 1
  /\ UNCHANGED <<argv, pc, li, volume, VolPerLink, ITvector, COMvector, joints, jointWrites, exitCode>>

(* a ".txt" argument: every store stays in the record, or the build has   *)
(* no bounds check and the stores at index >= 6 go outside the record     *)
JointArg ==
  /\ pc = "args"
  /\ i < argc
  /\ IsJointArg(Argv(i))
  /\ LET r == ReadJointFile(joints, Argv(i))
     IN /\ joints' = r.joints
        /\ jointWrites' = jointWrites \cup r.written
        /\ out' = Append(out, <<"ReadJointFile", Argv(i)>>) \o r.printed
  /\ i' = i + 1
  /\ UNCHANGED <<argv, pc, li, mass, volume, VolPerLink, ITvector, COMvector, exitCode>>

(* a ".txt" argument in a build where Eigen's operator[] asserts          *)
(* index < size(): the seventh token of a line aborts the process         *)
JointArgAssert ==
  /\ pc = "args"
  /\ i < argc
  /\ IsJointArg(Argv(i))
  /\ Overflows(Argv(i))
  /\ LET lines == StreamLines(Argv(i))
         n == LinesBeforeOverflow(lines, 1)
         r == GetlineLoop(SubSeq(lines, 1, n), 1,
                [joints |-> ClearJoints(joints), written |-> {}, printed |-> <<>>])
     IN /\ joints' = SubSeq(r.joints, 1, n - 1)
        /\ jointWrites' = jointWrites \cup (r.written \cap 0..(JointDim - 1))
        /\ out' = Append(out, <<"ReadJointFile", Argv(i)>>) \o r.printed
  /\ exitCode' = ExitAbort
  /\ pc' = "done"
  /\ UNCHANGED <<argv, i, li, mass, volume, VolPerLink, ITvector, COMvector>>

(* MeshOpenFail without the return: the error is printed, the loop goes on *)
MeshOpenFail_Continues ==
  /\ pc = "args"
  /\ i < argc
  /\ IsMeshArg(Argv(i))
  /\ ImportFails(Argv(i))
  /\ out' = Append(out, <<"CouldNotOpen", Argv(i)>>)
  /\ i' = i + 1
  /\ UNCHANGED <<argv, pc, li, mass, volume, VolPerLink, ITvector, COMvector, joints, jointWrites, exitCode>>

(* Open(...) != 0: printf("Could not open file '%s'\n"); return -1; *)
MeshOpenFail ==
  /\ pc = "args"
  /\ i < argc
  /\ IsMeshArg(Argv(i))
  /\ ImportFails(Argv(i))
  /\ out' = Append(out, <<"CouldNotOpen", Argv(i)>>)
  /\ exitCode' = ExitFailure
  /\ pc' = "done"
  /\ UNCHANGED <<argv, i, li, mass, volume, VolPerLink, ITvector, COMvector, joints, jointWrites>>

(* std::abs(Ib.Mass()) *)
LinkVolume(m) == Abs(m)

(* AddVolume with = in place of += *)
AddVolume_Assign(v, vol) == vol

(* volume += vol *)
AddVolume(v, vol) == v + vol

(* the mesh is imported: its center of mass, volume and tensor are pushed *)
MeshArg ==
  /\ pc = "args"
  /\ i < argc
  /\ IsMeshArg(Argv(i))
  /\ ~ImportFails(Argv(i))
  /\ LET Ib == MeshFile(Argv(i))
         vol == LinkVolume(Ib.Mass)
     IN /\ COMvector' = Append(COMvector, Ib.CenterOfMass)
        /\ VolPerLink' = Append(VolPerLink, vol)
        /\ volume' = AddVolume(volume, vol)
        /\ out' = Append(out, <<"Volume", volume, vol, volume'>>)
        /\ ITvector' = Append(ITvector, Ib.InertiaTensor)
  /\ i' = i + 1
  /\ UNCHANGED <<argv, pc, li, mass, joints, jointWrites, exitCode>>

(* printf("URDF data for %d links with overall mass of %.3f kg:\n") *)
PrintHeader ==
  /\ pc = "args"
  /\ i >= argc
  /\ out' = Append(out, <<"Header", Len(ITvector), mass>>)
  /\ li' = 0
  /\ pc' = "report"
  /\ UNCHANGED <<argv, i, mass, volume, VolPerLink, ITvector, COMvector, joints, jointWrites, exitCode>>

(* TransCond with j < i in place of j <= i *)
TransCond_Strict(j, size, link) == j < size /\ j < link

(* j < joints.size() && j <= i *)
TransCond(j, size, link) == j < size /\ j <= link

RECURSIVE TransLoop(_, _, _, _)
(* for (j = 0; ...; j++) Trans -= Point3f(joints[j][0], joints[j][1], joints[j][2]) *)
TransLoop(js, link, j, Trans) ==
  IF TransCond(j, Len(js), link)
  THEN TransLoop(js, link, j + 1, PSub(Trans, <<js[j + 1][1], js[j + 1][2], js[j + 1][3]>>))
  ELSE Trans

(* the name printed for link li: argv[i+1] *)
LinkName(link) == Argv(link + 1)

(* mass * VolPerLink.at(i) / volume *)
LinkMass(m, vol, v) == Rat(m * vol, v)

(* one pass of the report loop: the block of link li *)
EmitLink ==
  /\ pc = "report"
  /\ li < Len(ITvector)
  /\ LET IT == MatScale(ITvector[li + 1], Rat(mass, volume))
         Trans == TransLoop(joints, li, 0, Zero3)
         COM == PAdd(COMvector[li + 1], Trans)
         link_mass == LinkMass(mass, VolPerLink[li + 1], volume)
     IN out' = Append(out, <<"Link",
                 [label    |-> LinkName(li),
                  mass     |-> link_mass,
                  origin   |-> COM,
                  inertia  |-> IT,
                  visual   |-> Trans,
                  geometry |-> LinkName(li)]>>)
  /\ li' = li + 1
  /\ UNCHANGED <<argv, pc, i, mass, volume, VolPerLink, ITvector, COMvector, joints, jointWrites, exitCode>>

(* return 0 *)
ReturnZero ==
  /\ pc = "report"
  /\ li >= Len(ITvector)
  /\ exitCode' = 0
  /\ pc' = "done"
  /\ UNCHANGED <<argv, i, li, mass, volume, VolPerLink, ITvector, COMvector, joints, jointWrites, out>>

Next ==
  \/ NoArguments
  \/ EnterArgLoop
  \/ MassArg
  \/ JointArg
  \/ JointArgAssert
  \/ MeshOpenFail
  \/ MeshArg
  \/ PrintHeader
  \/ EmitLink
  \/ ReturnZero

Spec == Init /\ [][Next]_vars

----------------------------------------------------------------------------
(* What the run has printed and what it was given *)

IsLink(e) == e[1] = "Link"

(* the link blocks printed so far, in order *)
LinkBlocks == SelectSeq(out, IsLink)

NoLinkBlock == LinkBlocks = <<>>

Printed(kind, path) == \E n \in 1..Len(out) : out[n] = <<kind, path>>

(* the arguments classified as mesh files, in argument order *)
MeshArgs == SelectSeq(Tail(argv), IsMeshArg)

Exited == pc = "done"

Aborted == pc = "done" /\ exitCode = ExitAbort

(* the arguments the loop has gone past *)
Passed(a) == a \in 1..(argc - 1) /\ pc # "start" /\ a < i

RECURSIVE LastJointUpTo(_)
(* the last argument index <= a that is a joint file, or 0 *)
LastJointUpTo(a) ==
  IF a = 0 THEN 0
  ELSE IF IsJointArg(Argv(a)) THEN a ELSE LastJointUpTo(a - 1)

LastJointArg == IF pc = "start" THEN 0 ELSE LastJointUpTo(i - 1)

RECURSIVE LastMassFrom(_)
LastMassFrom(a) ==
  IF a = 0 THEN DefaultMass
  ELSE IF IsMassArg(Argv(a)) THEN Atof(Argv(a)) ELSE LastMassFrom(a - 1)

(* the target mass after all arguments *)
FinalMass == LastMassFrom(argc - 1)

RECURSIVE SumAbsVolumes(_)
SumAbsVolumes(n) ==
  IF n = 0 THEN 0 ELSE SumAbsVolumes(n - 1) + Abs(MeshFile(MeshArgs[n]).Mass)

RECURSIVE SumLinkMass(_)
SumLinkMass(n) ==
  IF n = 0 THEN Rat(0, 1) ELSE RatAdd(SumLinkMass(n - 1), LinkBlocks[n][2].mass)

RECURSIVE NegSumFirstThree(_, _)
(* minus the sum of the first three fields of the records 1..n of js *)
NegSumFirstThree(js, n) ==
  IF n = 0 THEN Zero3
  ELSE PSub(NegSumFirstThree(js, n - 1), <<js[n][1], js[n][2], js[n][3]>>)

Min(a, b) == IF a < b THEN a ELSE b

(* the first six fields of a line, missing ones zero *)
FieldsOf(line) ==
  LET toks == Strtok(line)
  IN [k \in 1..JointDim |-> IF k <= Len(toks) THEN Atof(toks[k]) ELSE 0]

IsBlank(line) == Strtok(line) = <<>>

RECURSIVE NonBlankRecords(_, _)
(* one record per non-blank line, from line p on, in line order *)
NonBlankRecords(lines, p) ==
  IF p > Len(lines) THEN <<>>
  ELSE IF IsBlank(lines[p]) THEN NonBlankRecords(lines, p + 1)
  ELSE <<FieldsOf(lines[p])>> \o NonBlankRecords(lines, p + 1)

----------------------------------------------------------------------------
(* C1: when the total volume of the processed meshes is zero, the run ends *)
(* in a fatal error with non-zero exit status, no link block is printed    *)
(* and no mass is computed by a division by zero.                          *)
C1_ZeroVolumeIsFatal ==
  (pc \in {"report", "done"} /\ Len(VolPerLink) >= 1 /\ volume = 0)
    => /\ NoLinkBlock
       /\ (Exited => exitCode # 0)

(* C2: an argument list without a mesh file ends in a usage error and a    *)
(* non-zero exit status; exit status 0 needs at least one processed mesh.  *)
C2_NoMeshIsUsageError ==
  /\ (Exited /\ ~Aborted /\ MeshArgs = <<>>)
       => (exitCode # 0 /\ out # <<>> /\ out[Len(out)] = <<"NoMeshFile">>)
  /\ (Exited /\ exitCode = 0) => Len(VolPerLink) >= 1

(* C3: a mesh argument whose import fails is never passed: the run stops   *)
(* at it with "Could not open file" naming it as the last thing printed    *)
(* and exit status -1, and no link block is ever printed in such a run.    *)
C3_ImportFailureAborts ==
  \A a \in 1..(argc - 1) :
    (IsMeshArg(Argv(a)) /\ ImportFails(Argv(a)))
      => /\ ~Passed(a)
         /\ pc # "report"
         /\ NoLinkBlock
         /\ ~(Exited /\ exitCode = 0)
         /\ (Exited /\ i = a /\ ~Aborted)
              => /\ exitCode = ExitFailure
                 /\ out[Len(out)] = <<"CouldNotOpen", Argv(a)>>

C3_Witness ==
  /\ Exited
  /\ exitCode = ExitFailure
  /\ Len(VolPerLink) >= 1
  /\ i >= 2
  /\ out[Len(out)] = <<"CouldNotOpen", Argv(i)>>

(* C4: a joint file that cannot be opened is reported with its path and    *)
(* the run aborts with non-zero status and no link block.                  *)
C4_JointFileErrorAborts ==
  \A a \in 1..(argc - 1) :
    (IsJointArg(Argv(a)) /\ ~FileExists(Argv(a)) /\ Passed(a))
      => /\ Exited
         /\ exitCode # 0
         /\ NoLinkBlock
         /\ Printed("CouldNotOpen", Argv(a))

(* C5: in a run that ends with n >= 1 meshes and total volume V > 0, V is  *)
(* the sum of the absolute volumes of the meshes, the link masses are      *)
(* M * volume_i / V and sum to the final target mass M, and every tensor   *)
(* entry is the unit-density entry times M / V.                            *)
C5_MassConservation ==
  (Exited /\ exitCode = 0 /\ Len(VolPerLink) >= 1 /\ volume > 0)
    => /\ Len(LinkBlocks) = Len(MeshArgs)
       /\ volume = SumAbsVolumes(Len(MeshArgs))
       /\ RatEq(SumLinkMass(Len(LinkBlocks)), Rat(FinalMass, 1))
       /\ \A k \in 1..Len(LinkBlocks) :
            LET b == LinkBlocks[k][2]
                m == MeshFile(MeshArgs[k])
            IN /\ RatEq(b.mass, Rat(FinalMass * Abs(m.Mass), SumAbsVolumes(Len(MeshArgs))))
               /\ \A r \in 1..3, c \in 1..3 :
                    RatEq(b.inertia[r][c],
                          Rat(m.InertiaTensor[r][c] * FinalMass, SumAbsVolumes(Len(MeshArgs))))

C5_Witness ==
  /\ Exited
  /\ exitCode = 0
  /\ Len(LinkBlocks) >= 2
  /\ volume = 3
  /\ mass = 2

(* C6: the translation of link k (0-based) is minus the sum of the first   *)
(* three fields of the joint records 0..min(k, records - 1): zero without  *)
(* records, and the same for every link past the last record; the          *)
(* inertial origin is the mesh's center of mass plus this translation.     *)
C6_CumulativeTranslation ==
  \A k \in 1..Len(LinkBlocks) :
    LET b == LinkBlocks[k][2]
        t == NegSumFirstThree(joints, Min(k - 1, Len(joints) - 1) + 1)
    IN /\ b.visual = t
       /\ b.origin = PAdd(MeshFile(MeshArgs[k]).CenterOfMass, t)
       /\ (joints = <<>> => b.visual = Zero3)
       /\ (k > Len(joints) /\ joints # <<>>) => b.visual = LinkBlocks[Len(joints)][2].visual

C6_Witness ==
  /\ Len(LinkBlocks) >= 2
  /\ Len(joints) = 1
  /\ LinkBlocks[2][2].visual = <<0, 0 - 1, 0>>
  /\ LinkBlocks[2][2].origin # MeshFile(MeshArgs[2]).CenterOfMass

(* C7: the k-th link block carries as label and geometry reference the     *)
(* file name of the k-th mesh argument.                                    *)
C7_LabelIsMeshArgument ==
  \A k \in 1..Len(LinkBlocks) :
    /\ LinkBlocks[k][2].label = MeshArgs[k]
    /\ LinkBlocks[k][2].geometry = MeshArgs[k]

(* C8: the joint sequence is the records of the last joint file argument   *)
(* passed so far (empty before the first): a joint file replaces the       *)
(* sequence, mass and mesh arguments leave it as it is.                    *)
C8_JointFileReplaces ==
  ~Aborted =>
    joints = IF LastJointArg = 0 THEN <<>>
             ELSE GetlineLoop(StreamLines(Argv(LastJointArg)), 1,
                    [joints |-> <<>>, written |-> {}, printed |-> <<>>]).joints

C8_Witness ==
  /\ pc = "args"
  /\ i = 4
  /\ IsJointArg(Argv(1)) /\ IsJointArg(Argv(2)) /\ IsMeshArg(Argv(3))
  /\ Argv(1) # Argv(2)
  /\ Len(joints) = 2
  /\ GetlineLoop(StreamLines(Argv(1)), 1,
       [joints |-> <<>>, written |-> {}, printed |-> <<>>]).joints # <<>>

(* C9: the joint sequence read from a file is one record per non-blank     *)
(* line, in line order, missing trailing fields zero, no line dropped.     *)
C9_OneRecordPerNonBlankLine ==
  (~Aborted /\ LastJointArg # 0 /\ FileExists(Argv(LastJointArg)))
    => joints = NonBlankRecords(FileLines(Argv(LastJointArg)), 1)

(* C10: every store into the 6-component joint record has an index 0..5.   *)
C10_JointIndexInRange ==
  \A idx \in jointWrites : idx \in 0..(JointDim - 1)


====
